---- MODULE Spec2Model ----
(***************************************************************************)
(* Model of the chipp-rs client: the retry controller of chat_detailed,    *)
(* the single attempt chat_attempt, the failure classifier, the stream     *)
(* establishment chat_stream, the SSE decoder ChippStream and the          *)
(* collecting wrapper chat_stream_collect, all acting on one ChippSession. *)
(***************************************************************************)
EXTENDS Integers, Sequences, FiniteSets, TLC

(* ------------------------------ bounds --------------------------------- *)
\* largest configured max_retries explored
MaxRetriesBound == 2

\* most lines of a general stream input
MaxLines == 2

\* most chunk boundaries inside a stream input
MaxCuts == 2

\* most text-fragment lines of a well-formed stream input
MaxFrags == 2

\* most discarded lines between the two fragments of a junk input
MaxJunk == 1

\* most lines of a stream input whose source is not always ready
MaxTimedLines == 2

\* most polls of the byte source that find nothing ready
MaxPending == 1

\* largest status code of an ApiError (status: u16)
U16Max == 65535

(* ---------------------------- value domains ---------------------------- *)
None == "none"
Ids == {"s1", "s2"}
OptIds == Ids \cup {None}

\* reqwest::Error kinds that send() can produce
TransportKinds == {"timeout", "connect", "redirect"}

\* HTTP statuses the mock service answers with
StatusCodes == {200, 400, 429, 500}

NoErr == [tag |-> "NoErr", status |-> 0, kind |-> "", message |-> "", n |-> 0]
HttpError(k) == [tag |-> "HttpError", status |-> 0, kind |-> k, message |-> "", n |-> 0]
InvalidResponse(w) == [tag |-> "InvalidResponse", status |-> 0, kind |-> w, message |-> "", n |-> 0]
ApiError(s, m) == [tag |-> "ApiError", status |-> s, kind |-> "", message |-> m, n |-> 0]
StreamError == [tag |-> "StreamError", status |-> 0, kind |-> "", message |-> "", n |-> 0]
MaxRetriesExceeded(m) == [tag |-> "MaxRetriesExceeded", status |-> 0, kind |-> "", message |-> "", n |-> m]
ConfigError == [tag |-> "ConfigError", status |-> 0, kind |-> "", message |-> "", n |-> 0]

\* a response of the service to a non-streaming request: a transport failure,
\* or a status with a body that parses or not, a chatSessionId and choices
TransportResp(k) ==
    [transport |-> k, status |-> 0, parses |-> FALSE, sid |-> None, choices |-> <<>>, text |-> "", body |-> <<>>]
HttpResp(s, p, i, c) ==
    [transport |-> "", status |-> s, parses |-> p, sid |-> i, choices |-> c, text |-> "", body |-> <<>>]
\* body texts of an error response; a body that cannot be read is received
\* as "" (response.text().await.unwrap_or_default())
ErrorTexts == {"", "Internal Server Error"}
\* a non-2xx response whose body reads as t
ErrorResp(s, t) ==
    [transport |-> "", status |-> s, parses |-> FALSE, sid |-> None, choices |-> <<>>, text |-> t, body |-> <<>>]
\* no response received yet
NoResp ==
    [transport |-> "", status |-> 0, parses |-> FALSE, sid |-> None, choices |-> <<>>, text |-> "", body |-> <<>>]
\* a 2xx response to a streaming request, its body arriving as the chunks b
StreamResp(b) ==
    [transport |-> "", status |-> 200, parses |-> FALSE, sid |-> None, choices |-> <<>>, text |-> "", body |-> b]

Responses ==
    {TransportResp(k) : k \in TransportKinds}
    \cup {HttpResp(s, FALSE, None, <<>>) : s \in StatusCodes}
    \cup {HttpResp(200, TRUE, i, c) : i \in Ids, c \in {<<>>, << <<"c">> >>}}

(* --------------------------- pure functions ---------------------------- *)
\* reqwest::StatusCode::is_success
is_success(s) == s >= 200 /\ s <= 299

\* reqwest::Error::is_timeout / is_connect / is_request on the modelled kinds
is_timeout(k) == k = "timeout"
is_connect(k) == k = "connect"
is_request(k) == k = "request"

is_retryable_error_above_500(error) ==
    CASE error.tag = "HttpError" ->
            is_timeout(error.kind) \/ is_connect(error.kind) \/ is_request(error.kind)
      [] error.tag = "ApiError" -> error.status > 500 \/ error.status = 429
      [] OTHER -> FALSE

\* ChippClient::is_retryable_error
is_retryable_error(error) ==
    CASE error.tag = "HttpError" ->
            is_timeout(error.kind) \/ is_connect(error.kind) \/ is_request(error.kind)
      [] error.tag = "ApiError" -> error.status >= 500 \/ error.status = 429
      [] OTHER -> FALSE

\* backoff.next_backoff() of the ExponentialBackoff built by create_backoff:
\* with_max_elapsed_time(None) makes it always Some(delay)
next_backoff_is_some == TRUE

Ok(payload) == [ok |-> TRUE, err |-> NoErr, sid |-> payload.sid, content |-> payload.content, latency |-> 0]
Err(e) == [ok |-> FALSE, err |-> e, sid |-> None, content |-> <<>>, latency |-> 0]
NoResult == [ok |-> FALSE, err |-> NoErr, sid |-> None, content |-> <<>>, latency |-> 0]

chat_attempt_early_update(resp, sess) ==
    IF resp.transport # "" THEN [res |-> Err(HttpError(resp.transport)), session |-> sess]
    ELSE IF ~is_success(resp.status) THEN [res |-> Err(ApiError(resp.status, resp.text)), session |-> sess]
    ELSE IF ~resp.parses THEN [res |-> Err(InvalidResponse("parse")), session |-> sess]
    ELSE IF resp.choices = <<>> THEN [res |-> Err(InvalidResponse("nochoices")), session |-> resp.sid]
    ELSE [res |-> Ok([sid |-> resp.sid, content |-> resp.choices[1]]), session |-> resp.sid]

chat_attempt_keep_existing(resp, sess) ==
    IF resp.transport # "" THEN [res |-> Err(HttpError(resp.transport)), session |-> sess]
    ELSE IF ~is_success(resp.status) THEN [res |-> Err(ApiError(resp.status, resp.text)), session |-> sess]
    ELSE IF ~resp.parses THEN [res |-> Err(InvalidResponse("parse")), session |-> sess]
    ELSE IF resp.choices = <<>> THEN [res |-> Err(InvalidResponse("nochoices")), session |-> sess]
    ELSE [res |-> Ok([sid |-> resp.sid, content |-> resp.choices[1]]),
          session |-> IF sess = None THEN resp.sid ELSE sess]

chat_attempt_empty_ok(resp, sess) ==
    IF resp.transport # "" THEN [res |-> Err(HttpError(resp.transport)), session |-> sess]
    ELSE IF ~is_success(resp.status) THEN [res |-> Err(ApiError(resp.status, resp.text)), session |-> sess]
    ELSE IF ~resp.parses THEN [res |-> Err(InvalidResponse("parse")), session |-> sess]
    ELSE IF resp.choices = <<>> THEN [res |-> Ok([sid |-> resp.sid, content |-> <<>>]), session |-> resp.sid]
    ELSE [res |-> Ok([sid |-> resp.sid, content |-> resp.choices[1]]), session |-> resp.sid]

\* ChippClient::chat_attempt: the outcome of one round trip and the session
\* it leaves behind
chat_attempt(resp, sess) ==
    IF resp.transport # "" THEN [res |-> Err(HttpError(resp.transport)), session |-> sess]
    ELSE IF ~is_success(resp.status) THEN [res |-> Err(ApiError(resp.status, resp.text)), session |-> sess]
    ELSE IF ~resp.parses THEN [res |-> Err(InvalidResponse("parse")), session |-> sess]
    ELSE IF resp.choices = <<>> THEN [res |-> Err(InvalidResponse("nochoices")), session |-> sess]
    ELSE [res |-> Ok([sid |-> resp.sid, content |-> resp.choices[1]]), session |-> resp.sid]

(* ----------------------------- SSE decoder ------------------------------ *)
\* Bytes are atoms: "NL" is the line break, "SP" any other whitespace, "D" the
\* prefix `data: `, "F" the sentinel `[DONE]`, "X" a byte that is not UTF-8,
\* and each remaining atom one JSON payload:
\*   "a", "b"   {"type":"text-delta","delta":"a"} and ... "b"
\*   "e"        {"type":"text-delta","delta":""}
\*   "t"        {"type":"text-delta"} without a delta field
\*   "m1", "m2" {"type":"message-metadata", ...[{"persistedMessageId":"s1"}]} and "s2"
\*   "m0"       message-metadata whose annotations carry no persistedMessageId
\*   "f"        {"type":"finish"}
\*   "j"        text that is not JSON
\* and "U1", "U2" are the two halves of {"type":"text-delta","delta":"é"},
\* cut between the two bytes of é: "U1" ends with its lead byte, "U2" begins
\* with its continuation byte.
\* A String is the sequence of its characters.
TextAtoms == {"a", "b", "e"}
MetaAtoms == {"m1", "m2"}

delta_of(p) == IF p = "e" THEN <<>> ELSE <<p>>
persisted_message_id(p) == IF p = "m1" THEN "s1" ELSE "s2"

NoEvent == [e |-> "None", text |-> <<>>, id |-> None]
TextDelta(t) == [e |-> "TextDelta", text |-> t, id |-> None]
SessionId(i) == [e |-> "SessionId", text |-> <<>>, id |-> i]
Done == [e |-> "Done", text |-> <<>>, id |-> None]

RECURSIVE trim_start(_)
trim_start(s) == IF s # <<>> /\ s[1] = "SP" THEN trim_start(Tail(s)) ELSE s

RECURSIVE trim_end(_)
trim_end(s) == IF s # <<>> /\ s[Len(s)] = "SP" THEN trim_end(SubSeq(s, 1, Len(s) - 1)) ELSE s

\* str::trim
trim(s) == trim_end(trim_start(s))

sse_event_ignores_metadata(data) ==
    LET body == trim(data)
    IN  IF Len(body) # 1 THEN NoEvent
        ELSE IF body[1] \in TextAtoms THEN TextDelta(delta_of(body[1]))
        ELSE NoEvent

sse_event_skip_empty(data) ==
    LET body == trim(data)
    IN  IF Len(body) # 1 THEN NoEvent
        ELSE IF body[1] \in TextAtoms /\ delta_of(body[1]) # <<>> THEN TextDelta(delta_of(body[1]))
        ELSE IF body[1] \in MetaAtoms THEN SessionId(persisted_message_id(body[1]))
        ELSE NoEvent

\* serde_json::from_str::<SseEvent>(data) and the match on event_type
sse_event(data) ==
    LET body == trim(data)
    IN  IF body = <<"U1", "U2">> THEN TextDelta(body)
        ELSE IF Len(body) # 1 THEN NoEvent
        ELSE IF body[1] \in TextAtoms THEN TextDelta(delta_of(body[1]))
        ELSE IF body[1] \in MetaAtoms THEN SessionId(persisted_message_id(body[1]))
        ELSE NoEvent

parse_sse_line_no_prefix(line) ==
    IF line = <<>> THEN NoEvent
    ELSE IF line[1] # "D" THEN sse_event(line)
    ELSE IF Tail(line) = <<"F">> THEN Done
    ELSE sse_event(Tail(line))

parse_sse_line_done_as_text(line) ==
    IF line = <<>> \/ line[1] # "D" THEN NoEvent
    ELSE IF Tail(line) = <<"F">> THEN TextDelta(<<>>)
    ELSE sse_event(Tail(line))

\* stream::parse_sse_line
parse_sse_line(line) ==
    IF line = <<>> \/ line[1] # "D" THEN NoEvent
    ELSE IF Tail(line) = <<"F">> THEN Done
    ELSE sse_event(Tail(line))

\* String::find('\n'): index of the first line break, 0 when there is none
find_newline(buf) ==
    IF \E i \in 1..Len(buf) : buf[i] = "NL"
    THEN CHOOSE i \in 1..Len(buf) : buf[i] = "NL" /\ \A j \in 1..(i - 1) : buf[j] # "NL"
    ELSE 0

valid_utf8_lossy(bytes) == TRUE

\* String::from_utf8 succeeds: no invalid byte, every lead byte followed by
\* its continuation byte and every continuation byte preceded by its lead
valid_utf8(bytes) ==
    \A i \in 1..Len(bytes) :
        /\ bytes[i] # "X"
        /\ bytes[i] = "U1" => (i < Len(bytes) /\ bytes[i + 1] = "U2")
        /\ bytes[i] = "U2" => (i > 1 /\ bytes[i - 1] = "U1")

\* the element of a one-element set; {e(x) : x \in {v}} binds x to the value
\* of v, which is then computed once however often e uses it
TheOne(S) == CHOOSE x \in S : TRUE

NoItem == [k |-> "none", text |-> <<>>, err |-> NoErr]
OkItem(t) == [k |-> "ok", text |-> t, err |-> NoErr]
ErrItem(e) == [k |-> "err", text |-> <<>>, err |-> e]
\* Poll::Pending: not an item, the poll is to be made again
PendingItem == [k |-> "pending", text |-> <<>>, err |-> NoErr]

try_lock_always(st) == TRUE

\* Mutex::try_lock on the cell holding the captured id: it fails while
\* another holder of the Arc has the lock. The Arc that chat_stream creates
\* has the stream as its only owner, so there the cell is always free.
try_lock(st) == ~st.locked

\* ChippStream::process_buffer. The field sentinel records that a
\* `data: [DONE]` line has been processed, last_meta and metas the id of the
\* latest metadata line processed and how many have been.
RECURSIVE process_buffer(_)
process_buffer(self) == TheOne({
    LET pos == find_newline(st.buffer)
    IN  IF pos = 0 THEN [st |-> st, item |-> NoItem]
        ELSE LET line == trim(SubSeq(st.buffer, 1, pos - 1))
                 st1 == [st EXCEPT !.buffer = SubSeq(st.buffer, pos + 1, Len(st.buffer))]
                 ev == parse_sse_line(line)
             IN  IF line = <<>> THEN process_buffer(st1)
                 ELSE IF ev.e = "TextDelta" THEN [st |-> st1, item |-> OkItem(ev.text)]
                 ELSE IF ev.e = "SessionId"
                      THEN process_buffer([st1 EXCEPT !.cell = IF try_lock(st1) THEN ev.id ELSE @,
                                                      !.last_meta = ev.id, !.metas = @ + 1])
                 ELSE IF ev.e = "Done"
                      THEN [st |-> [st1 EXCEPT !.finished = TRUE, !.sentinel = TRUE], item |-> NoItem]
                 ELSE process_buffer(st1)
    : st \in {self}})

\* items of the inner byte stream: Ok(bytes) or Err(reqwest::Error)
Chunk(bytes) == [ok |-> TRUE, bytes |-> bytes, ready |-> TRUE]
ChunkErr == [ok |-> FALSE, bytes |-> <<>>, ready |-> TRUE]
\* the inner stream has nothing yet: its next poll returns Poll::Pending
NotReady == [ok |-> TRUE, bytes |-> <<>>, ready |-> FALSE]

\* the loop of poll_next over the inner byte stream; an empty src is the
\* inner stream's end; the field reads counts the polls of the inner stream,
\* late_reads those made after a `data: [DONE]` line was processed, src_errs
\* the errors the inner stream has raised
RECURSIVE poll_inner(_)
poll_inner(self) == TheOne({
    IF st.src = <<>>
    THEN LET st0 == [st EXCEPT !.reads = st.reads + 1,
                               !.late_reads = IF st.sentinel THEN @ + 1 ELSE @]
             r == IF st0.buffer # <<>> THEN process_buffer(st0) ELSE [st |-> st0, item |-> NoItem]
         IN  IF r.item.k = "ok" THEN r
             ELSE [st |-> [r.st EXCEPT !.finished = TRUE], item |-> NoItem]
    ELSE LET c == Head(st.src)
             st1 == [st EXCEPT !.src = Tail(st.src), !.reads = st.reads + 1,
                               !.late_reads = IF st.sentinel THEN @ + 1 ELSE @]
         IN  IF ~c.ready THEN [st |-> st1, item |-> PendingItem]
             ELSE IF ~c.ok THEN [st |-> [st1 EXCEPT !.src_errs = @ + 1], item |-> ErrItem(HttpError("body"))]
             ELSE IF ~valid_utf8(c.bytes) THEN [st |-> st1, item |-> ErrItem(StreamError)]
             ELSE LET r == process_buffer([st1 EXCEPT !.buffer = st.buffer \o c.bytes])
                  IN  IF r.item.k = "ok" THEN r ELSE poll_inner(r.st)
    : st \in {self}})

poll_next_unfused(st) ==
    LET r == process_buffer(st)
    IN  IF r.item.k = "ok" THEN r ELSE poll_inner(r.st)

poll_next_as_stream_error(st) ==
    LET r == IF st.finished THEN [st |-> st, item |-> NoItem]
             ELSE LET q == process_buffer(st)
                  IN  IF q.item.k = "ok" THEN q ELSE poll_inner(q.st)
    IN  IF r.item.k = "err" THEN [st |-> r.st, item |-> ErrItem(StreamError)] ELSE r

poll_next_eager(st) ==
    IF st.finished THEN [st |-> st, item |-> NoItem] ELSE poll_inner(st)

poll_next_never_ends(st) ==
    LET r == IF st.finished THEN [st |-> st, item |-> NoItem]
             ELSE LET q == process_buffer(st)
                  IN  IF q.item.k = "ok" THEN q ELSE poll_inner(q.st)
    IN  IF r.item.k = "none" THEN [st |-> r.st, item |-> PendingItem] ELSE r

\* <ChippStream as Stream>::poll_next, one call
poll_next(st) ==
    IF st.finished THEN [st |-> st, item |-> NoItem]
    ELSE LET r == process_buffer(st)
         IN  IF r.item.k = "ok" THEN r ELSE poll_inner(r.st)

session_id_when_finished(st) == IF st.finished THEN st.cell ELSE None

\* ChippStream::session_id: what a read of the cell returns
session_id(st) == st.cell

\* ChippStream::new
new_stream(src) ==
    [live |-> TRUE, buffer |-> <<>>, src |-> src, finished |-> FALSE, cell |-> None,
     reads |-> 0, sentinel |-> FALSE, late_reads |-> 0, locked |-> FALSE,
     last_meta |-> None, metas |-> 0, src_errs |-> 0]
\* no stream yet
NoStream ==
    [live |-> FALSE, buffer |-> <<>>, src |-> <<>>, finished |-> FALSE, cell |-> None,
     reads |-> 0, sentinel |-> FALSE, late_reads |-> 0, locked |-> FALSE,
     last_meta |-> None, metas |-> 0, src_errs |-> 0]

Line(p) == <<"D", p, "NL">>

\* response bodies of the streaming endpoint, as chunk sequences
StreamBodies ==
    { <<Chunk(Line("a") \o Line("b") \o Line("m1") \o Line("F"))>>,
      <<Chunk(Line("a")), Chunk(Line("m2") \o Line("F"))>>,
      <<Chunk(Line("m1") \o Line("a")), ChunkErr>>,
      <<Chunk(Line("m2")), Chunk(<<"X">>)>>,
      <<Chunk(Line("b"))>>,
      <<Chunk(Line("F"))>> }

StreamResponses ==
    {TransportResp(k) : k \in TransportKinds}
    \cup {ErrorResp(s, t) : s \in StatusCodes \ {200}, t \in ErrorTexts}
    \cup {StreamResp(b) : b \in StreamBodies}

(* -------------------------------- state -------------------------------- *)
VARIABLES
    max_retries,    \* config.max_retries
    session,        \* ChippSession::chat_session_id
    op,             \* the client method in progress or last returned
    pc,             \* position of that call: idle, attempt, sleep, open, collect, done, cancelled
    attempt,        \* chat_detailed's attempt counter
    result,         \* what the call returned
    stream,         \* the ChippStream of the last chat_stream / chat_stream_collect
    full_response,  \* chat_stream_collect's accumulator
    requests,       \* chatSessionId carried by each request of this call, in order
    sleeps,         \* backoff sleeps started in this call
    outcomes,       \* result of each attempt of this call, in order
    pre,            \* session id when the call began
    last_id,        \* id of the latest successful exchange since construction or reset
    returns,        \* results handed to the caller by this call
    item,           \* what the latest poll of the stream returned
    stream_erred,   \* the stream has delivered an error item
    cls_error,      \* the error handed to is_retryable_error
    cls_done,       \* is_retryable_error has returned
    cls_retryable,  \* what it returned
    last_resp,      \* the response received by the latest request of this call
    d_family,       \* the family the stream's input was drawn from
    d_lines,        \* the kinds of the lines the input was built from, in order
    d_open,         \* the input's last line lacks its line break
    d_items,        \* the items the stream has delivered, in order
    d_ended,        \* a poll of the stream has returned end-of-stream
    uuids,          \* Uuid::new_v4() calls made by this call; the n-th returns the id n
    correlation_id, \* the call's local correlation_id, 0 before it is set
    headers,        \* X-Correlation-ID of each request of this call, in order
    heads,          \* HEAD requests sent by this call
    elapsed         \* time from ping's start to the response it received

vars == <<max_retries, session, op, pc, attempt, result, stream, full_response,
          requests, sleeps, outcomes, pre, last_id, returns, item, stream_erred,
          cls_error, cls_done, cls_retryable, last_resp,
          d_family, d_lines, d_open, d_items, d_ended,
          uuids, correlation_id, headers, heads, elapsed>>

clsvars == <<cls_error, cls_done, cls_retryable>>
inputvars == <<d_family, d_lines, d_open>>
corrvars == <<uuids, correlation_id, headers>>
pingvars == <<heads, elapsed>>

ChatOps == {"chat", "chat_detailed"}
StreamOps == {"chat_stream", "chat_stream_collect"}

\* ChippSession::new or ChippSession::with_id, and a client built from a
\* config with some max_retries
Init ==
    /\ max_retries \in 0..MaxRetriesBound
    /\ session \in OptIds
    /\ last_id = session
    /\ op = "none"
    /\ pc = "idle"
    /\ attempt = 0
    /\ result = NoResult
    /\ stream = NoStream
    /\ full_response = <<>>
    /\ requests = <<>>
    /\ sleeps = 0
    /\ outcomes = <<>>
    /\ pre = session
    /\ returns = 0
    /\ item = NoItem
    /\ stream_erred = FALSE
    /\ cls_error = NoErr
    /\ cls_done = FALSE
    /\ cls_retryable = FALSE
    /\ last_resp = NoResp
    /\ d_family = "body"
    /\ d_lines = <<>>
    /\ d_open = FALSE
    /\ d_items = <<>>
    /\ d_ended = FALSE
    /\ uuids = 0
    /\ correlation_id = 0
    /\ headers = <<>>
    /\ heads = 0
    /\ elapsed = 0

\* no call is in progress: none made yet, the last one returned, or its
\* future was dropped
Quiescent == pc \in {"idle", "done", "cancelled"}

\* entry of chat / chat_detailed: lines before the loop, where the call's one
\* correlation id is generated
Call(o) ==
    /\ Quiescent
    /\ o \in ChatOps
    /\ op' = o
    /\ pc' = "attempt"
    /\ attempt' = 0
    /\ result' = NoResult
    /\ requests' = <<>>
    /\ sleeps' = 0
    /\ outcomes' = <<>>
    /\ pre' = session
    /\ returns' = 0
    /\ full_response' = <<>>
    /\ last_resp' = NoResp
    /\ uuids' = 1
    /\ correlation_id' = 1
    /\ headers' = <<>>
    /\ heads' = 0
    /\ elapsed' = 0
    /\ UNCHANGED <<max_retries, session, stream, last_id, item, stream_erred, clsvars, inputvars,
                   d_items, d_ended>>

x_correlation_id_per_attempt(id, n) == n

\* the X-Correlation-ID header of the n-th request of a call whose
\* correlation_id is id: chat_detailed hands the same &correlation_id to
\* every chat_attempt
x_correlation_id(id, n) == id

\* what op hands back for a successful attempt: chat_detailed the whole
\* ChatResponse, chat only response.content()
returned(o, r) == IF o = "chat" THEN [r EXCEPT !.sid = None] ELSE r

Return(r) ==
    /\ result' = r
    /\ returns' = returns + 1
    /\ pc' = "done"

match_result_off_by_one(r, n) ==
    IF r.ok THEN "return_ok"
    ELSE IF n > max_retries + 1 THEN "exhausted"
    ELSE IF is_retryable_error(r.err) THEN
        IF next_backoff_is_some THEN "sleep" ELSE "return_err"
    ELSE "return_err"

match_result_retry_all(r, n) ==
    IF r.ok THEN "return_ok"
    ELSE IF n >= max_retries + 1 THEN "exhausted"
    ELSE IF next_backoff_is_some THEN "sleep" ELSE "return_err"

match_result_no_retry(r, n) ==
    IF r.ok THEN "return_ok"
    ELSE IF n >= max_retries + 1 /\ is_retryable_error(r.err) THEN "exhausted"
    ELSE "return_err"

\* the match on the attempt's result in chat_detailed's loop, arms in order
match_result(r, n) ==
    IF r.ok THEN "return_ok"
    ELSE IF n >= max_retries + 1 THEN "exhausted"
    ELSE IF is_retryable_error(r.err) THEN
        IF next_backoff_is_some THEN "sleep" ELSE "return_err"
    ELSE "return_err"

\* one iteration of chat_detailed's loop: attempt += 1, chat_attempt, match
Attempt(resp) ==
    /\ pc = "attempt"
    /\ LET n == attempt + 1
           a == chat_attempt(resp, session)
           arm == match_result(a.res, n)
       IN  /\ attempt' = n
           /\ requests' = Append(requests, session)
           /\ outcomes' = Append(outcomes, a.res)
           /\ session' = a.session
           /\ last_id' = IF a.res.ok THEN a.res.sid ELSE last_id
           /\ CASE arm = "return_ok" -> Return(returned(op, a.res)) /\ UNCHANGED sleeps
                [] arm = "exhausted" -> Return(Err(MaxRetriesExceeded(max_retries))) /\ UNCHANGED sleeps
                [] arm = "return_err" -> Return(a.res) /\ UNCHANGED sleeps
                [] arm = "sleep" ->
                     /\ pc' = "sleep"
                     /\ sleeps' = sleeps + 1
                     /\ UNCHANGED <<result, returns>>
    /\ last_resp' = resp
    /\ headers' = Append(headers, x_correlation_id(correlation_id, attempt + 1))
    /\ UNCHANGED <<max_retries, op, stream, full_response, pre, item, stream_erred, clsvars, inputvars,
                   uuids, correlation_id, pingvars,
                   d_items, d_ended>>

Wake_detached ==
    /\ pc \in {"sleep", "cancelled"}
    /\ pc' = "attempt"
    /\ UNCHANGED <<max_retries, session, op, attempt, result, stream, full_response,
                   requests, sleeps, outcomes, pre, last_id, returns, item, stream_erred,
                   clsvars, inputvars, corrvars, pingvars, last_resp, d_items, d_ended>>

\* tokio::time::sleep(delay) elapses and the loop goes round
Wake ==
    /\ pc = "sleep"
    /\ pc' = "attempt"
    /\ UNCHANGED <<max_retries, session, op, attempt, result, stream, full_response,
                   requests, sleeps, outcomes, pre, last_id, returns, item, stream_erred, clsvars, inputvars,
                   corrvars, pingvars,
                   last_resp, d_items, d_ended>>

\* times a round trip can take, as start.elapsed() measures them
Latencies == {1, 2}

\* answers to the HEAD request: a transport failure or a response of any status
PingResponses ==
    {TransportResp(k) : k \in TransportKinds}
    \cup {HttpResp(s, FALSE, None, <<>>) : s \in StatusCodes}

\* entry of ping: the lines before the send
CallPing ==
    /\ Quiescent
    /\ op' = "ping"
    /\ pc' = "ping"
    /\ attempt' = 0
    /\ result' = NoResult
    /\ requests' = <<>>
    /\ sleeps' = 0
    /\ outcomes' = <<>>
    /\ pre' = session
    /\ returns' = 0
    /\ full_response' = <<>>
    /\ last_resp' = NoResp
    /\ uuids' = 0
    /\ correlation_id' = 0
    /\ headers' = <<>>
    /\ heads' = 0
    /\ elapsed' = 0
    /\ UNCHANGED <<max_retries, session, stream, last_id, item, stream_erred, clsvars, inputvars,
                   d_items, d_ended>>

ping_checks_status(resp, l) ==
    IF resp.transport # "" THEN Err(HttpError(resp.transport))
    ELSE IF ~is_success(resp.status) THEN Err(ApiError(resp.status, resp.text))
    ELSE [ok |-> TRUE, err |-> NoErr, sid |-> None, content |-> <<>>, latency |-> l]

\* ChippClient::ping from the send on: `?` turns a transport failure into
\* HttpError, any response gives Ok(start.elapsed())
ping(resp, l) ==
    IF resp.transport # "" THEN Err(HttpError(resp.transport))
    ELSE [ok |-> TRUE, err |-> NoErr, sid |-> None, content |-> <<>>, latency |-> l]

\* the HEAD request of ping, answered with resp after the time l
Ping(resp, l) ==
    /\ pc = "ping"
    /\ heads' = heads + 1
    /\ elapsed' = l
    /\ last_resp' = resp
    /\ Return(ping(resp, l))
    /\ UNCHANGED <<max_retries, session, op, attempt, stream, full_response, requests, sleeps,
                   outcomes, pre, last_id, item, stream_erred, clsvars, inputvars, corrvars,
                   d_items, d_ended>>

\* the caller drops the future of chat / chat_detailed while it is suspended
\* in tokio::time::sleep(delay).await: the loop lives in that future and
\* nothing of it runs again
Cancel ==
    /\ pc = "sleep"
    /\ pc' = "cancelled"
    /\ UNCHANGED <<max_retries, session, op, attempt, result, stream, full_response,
                   requests, sleeps, outcomes, pre, last_id, returns, item, stream_erred,
                   clsvars, inputvars, corrvars, pingvars, last_resp, d_items, d_ended>>

\* ChippSession::reset
Reset ==
    /\ Quiescent
    /\ session' = None
    /\ last_id' = None
    /\ op' = "reset"
    /\ pc' = "idle"
    /\ attempt' = 0
    /\ result' = NoResult
    /\ full_response' = <<>>
    /\ requests' = <<>>
    /\ sleeps' = 0
    /\ outcomes' = <<>>
    /\ pre' = session
    /\ returns' = 0
    /\ last_resp' = NoResp
    /\ uuids' = 0
    /\ correlation_id' = 0
    /\ headers' = <<>>
    /\ heads' = 0
    /\ elapsed' = 0
    /\ UNCHANGED <<max_retries, stream, item, stream_erred, clsvars, inputvars, d_items, d_ended>>

\* entry of chat_stream / chat_stream_collect; a stream still held from an
\* earlier call is dropped
CallStream(o) ==
    /\ Quiescent
    /\ o \in StreamOps
    /\ op' = o
    /\ pc' = "open"
    /\ attempt' = 0
    /\ result' = NoResult
    /\ stream' = NoStream
    /\ full_response' = <<>>
    /\ requests' = <<>>
    /\ sleeps' = 0
    /\ outcomes' = <<>>
    /\ pre' = session
    /\ returns' = 0
    /\ item' = NoItem
    /\ stream_erred' = FALSE
    /\ last_resp' = NoResp
    /\ d_items' = <<>>
    /\ d_ended' = FALSE
    /\ uuids' = 1
    /\ correlation_id' = 1
    /\ headers' = <<>>
    /\ heads' = 0
    /\ elapsed' = 0
    /\ UNCHANGED <<max_retries, session, last_id, clsvars, inputvars>>

chat_stream_with_retry(resp) ==
    IF resp.transport # "" THEN
        IF is_retryable_error(HttpError(resp.transport)) THEN Err(MaxRetriesExceeded(max_retries))
        ELSE Err(HttpError(resp.transport))
    ELSE IF ~is_success(resp.status) THEN
        IF is_retryable_error(ApiError(resp.status, resp.text)) THEN Err(MaxRetriesExceeded(max_retries))
        ELSE Err(ApiError(resp.status, resp.text))
    ELSE [ok |-> TRUE, err |-> NoErr, sid |-> None, content |-> <<>>, latency |-> 0]

chat_stream_drop_body(resp) ==
    IF resp.transport # "" THEN Err(HttpError(resp.transport))
    ELSE IF ~is_success(resp.status) THEN Err(ApiError(resp.status, ""))
    ELSE [ok |-> TRUE, err |-> NoErr, sid |-> None, content |-> <<>>, latency |-> 0]

\* ChippClient::chat_stream from the send on: the Result it returns
chat_stream(resp) ==
    IF resp.transport # "" THEN Err(HttpError(resp.transport))
    ELSE IF ~is_success(resp.status) THEN Err(ApiError(resp.status, resp.text))
    ELSE [ok |-> TRUE, err |-> NoErr, sid |-> None, content |-> <<>>, latency |-> 0]

\* the request of chat_stream and its response; chat_stream_collect goes on
\* to consume the stream, chat_stream hands it to the caller
Open(resp) ==
    /\ pc = "open"
    /\ LET r == chat_stream(resp)
       IN  /\ requests' = Append(requests, session)
           /\ outcomes' = Append(outcomes, r)
           /\ attempt' = attempt + 1
           /\ stream' = IF r.ok THEN new_stream(resp.body) ELSE NoStream
           /\ IF r.ok /\ op = "chat_stream_collect"
              THEN pc' = "collect" /\ UNCHANGED <<result, returns>>
              ELSE Return(r)
    /\ last_resp' = resp
    /\ headers' = Append(headers, x_correlation_id(correlation_id, attempt + 1))
    /\ UNCHANGED <<max_retries, session, op, full_response, sleeps, pre, last_id,
                   item, stream_erred, clsvars, inputvars, uuids, correlation_id, pingvars,
                   d_items, d_ended>>

\* the items handed out so far, with what this poll returned: Some(item) is
\* recorded, None is not
delivered(items, it) == IF it.k \in {"none", "pending"} THEN items ELSE Append(items, it)

collect_session_always(cell, sess) == cell

\* chat_stream_collect after the loop: the session id it leaves, given what
\* stream.session_id() returns
collect_session(cell, sess) == IF cell # None THEN cell ELSE sess

\* one turn of chat_stream_collect's while loop, and the lines after it when
\* the stream has ended
CollectNext ==
    /\ pc = "collect"
    /\ LET r == poll_next(stream)
       IN  /\ item' = r.item
           /\ d_items' = delivered(d_items, r.item)
           /\ d_ended' = (d_ended \/ r.item.k = "none")
           /\ CASE r.item.k \in {"ok", "pending"} ->
                     \* Pending suspends stream.next().await: nothing is pushed
                     /\ full_response' = full_response \o r.item.text
                     /\ stream' = r.st
                     /\ UNCHANGED <<session, last_id, result, returns, pc, stream_erred>>
                [] r.item.k = "err" ->
                     /\ Return(Err(r.item.err))
                     /\ stream' = [r.st EXCEPT !.live = FALSE]
                     /\ stream_erred' = TRUE
                     /\ UNCHANGED <<session, last_id, full_response>>
                [] OTHER ->
                     /\ session' = collect_session(session_id(r.st), session)
                     /\ last_id' = IF r.st.cell # None THEN r.st.cell ELSE last_id
                     /\ Return([ok |-> TRUE, err |-> NoErr, sid |-> None, content |-> full_response, latency |-> 0])
                     /\ stream' = [r.st EXCEPT !.live = FALSE]
                     /\ UNCHANGED <<full_response, stream_erred>>
    /\ UNCHANGED <<max_retries, op, attempt, requests, sleeps, outcomes, pre, clsvars, inputvars,
                   corrvars, pingvars,
                   last_resp>>

\* the caller polls the stream that chat_stream returned (stream.next().await)
Poll ==
    /\ Quiescent
    /\ stream.live
    /\ \E r \in {poll_next(stream)} :
           /\ item' = r.item
           /\ d_items' = delivered(d_items, r.item)
           /\ d_ended' = (d_ended \/ r.item.k = "none")
           /\ stream' = r.st
           /\ stream_erred' = (stream_erred \/ r.item.k = "err")
           /\ last_id' = IF r.item.k = "none" /\ ~stream.finished /\ ~stream_erred /\ r.st.cell # None
                         THEN r.st.cell ELSE last_id
    /\ UNCHANGED <<max_retries, session, op, pc, attempt, result, full_response,
                   requests, sleeps, outcomes, pre, returns, clsvars, inputvars, corrvars, pingvars, last_resp>>

Next ==
    \/ \E o \in ChatOps : Call(o)
    \/ \E resp \in Responses : Attempt(resp)
    \/ Wake
    \/ Reset
    \/ \E o \in StreamOps : CallStream(o)
    \/ \E resp \in StreamResponses : Open(resp)
    \/ CollectNext
    \/ Poll
    \/ CallPing
    \/ \E resp \in PingResponses, l \in Latencies : Ping(resp, l)

Spec == Init /\ [][Next]_vars

(* ------------- the client with calls that may be cancelled ------------- *)
CancelNext ==
    \/ Next
    \/ Cancel

CancelSpec == Init /\ [][CancelNext]_vars

(* ---------------- the retry controller on its own, fair ---------------- *)
ChatNext ==
    \/ \E o \in ChatOps : Call(o)
    \/ \E resp \in Responses : Attempt(resp)
    \/ Wake
    \/ Reset

\* every attempt completes and every backoff sleep elapses
FairChatSpec ==
    /\ Init
    /\ [][ChatNext]_vars
    /\ WF_vars(\E resp \in Responses : Attempt(resp))
    /\ WF_vars(Wake)

(* ------------------------ the classifier on its own --------------------- *)
ClassifyInputs ==
    {ApiError(st, "") : st \in 0..U16Max}
    \cup {HttpError(k) : k \in TransportKinds \cup {"request", "body", "decode", "builder"}}
    \cup {InvalidResponse("parse"), InvalidResponse("nochoices"), StreamError, ConfigError}
    \cup {MaxRetriesExceeded(m) : m \in 0..MaxRetriesBound}

ClassifyInit ==
    /\ max_retries = 0
    /\ session = None
    /\ last_id = None
    /\ op = "none"
    /\ pc = "idle"
    /\ attempt = 0
    /\ result = NoResult
    /\ stream = NoStream
    /\ full_response = <<>>
    /\ requests = <<>>
    /\ sleeps = 0
    /\ outcomes = <<>>
    /\ pre = None
    /\ returns = 0
    /\ item = NoItem
    /\ stream_erred = FALSE
    /\ cls_error \in ClassifyInputs
    /\ cls_done = FALSE
    /\ cls_retryable = FALSE
    /\ last_resp = NoResp
    /\ d_family = "body"
    /\ d_lines = <<>>
    /\ d_open = FALSE
    /\ d_items = <<>>
    /\ d_ended = FALSE
    /\ uuids = 0
    /\ correlation_id = 0
    /\ headers = <<>>
    /\ heads = 0
    /\ elapsed = 0

Classify ==
    /\ ~cls_done
    /\ cls_done' = TRUE
    /\ cls_retryable' = is_retryable_error(cls_error)
    /\ UNCHANGED <<max_retries, session, op, pc, attempt, result, stream, full_response,
                   requests, sleeps, outcomes, pre, last_id, returns, item, stream_erred,
                   cls_error, last_resp, inputvars, corrvars, pingvars, d_items, d_ended>>

ClassifySpec == ClassifyInit /\ [][Classify]_vars

(* --------------- the decoder on its own, over input families ------------ *)
\* The lines an input is built from, by kind:
\*   "a", "b", "e"  text-fragment lines with delta "a", "b", ""
\*   "m1", "m2"     message-metadata lines carrying the id "s1", "s2"
\*   "F"            the sentinel line `data: [DONE]`
\*   "f"            a line of an unrecognized type (finish)
\*   "j"            a data line whose payload is not JSON
\*   "blank"        an empty line
\*   "sp"           a line of whitespace only
\*   "bare"         a payload without the `data: ` prefix
\*   "x"            a byte that is not UTF-8 followed by a text-fragment line
\*   "u"            a text-fragment line whose text is the two-byte character é
LineBytes(k) ==
    CASE k = "blank" -> <<"NL">>
      [] k = "sp" -> <<"SP", "NL">>
      [] k = "bare" -> <<"a", "NL">>
      [] k = "x" -> <<"X", "D", "a", "NL">>
      [] k = "u" -> <<"D", "U1", "U2", "NL">>
      [] OTHER -> Line(k)

FragKinds == {"a", "b", "e"}
OtherKinds == {"m1", "m2", "f", "blank"}
SharedKinds == {"a", "m1", "m2"}
Utf8Kinds == {"a", "u"}
JunkKinds == {"blank", "sp", "bare", "f", "j"}
GeneralKinds == {"a", "e", "m1", "F", "f", "x"}
TimedKinds == {"a", "m1", "F", "x"}

\* sequences over S of length lo..hi
SeqsOf(S, lo, hi) == UNION {[1..n -> S] : n \in lo..hi}

RECURSIVE Concat(_)
Concat(ss) == IF ss = <<>> THEN <<>> ELSE Head(ss) \o Concat(Tail(ss))

\* the bytes of the body: the lines in order, the last one without its line
\* break when open
BodyBytes(lines, open) ==
    LET all == Concat([i \in 1..Len(lines) |-> LineBytes(lines[i])])
    IN  IF open THEN SubSeq(all, 1, Len(all) - 1) ELSE all

\* the ways bytes_stream() can deliver bytes: non-empty chunks, at most
\* cuts chunk boundaries
RECURSIVE Chunkings(_, _)
Chunkings(bytes, cuts) ==
    IF bytes = <<>> THEN {<<>>}
    ELSE {<<Chunk(bytes)>>} \cup
         (IF cuts = 0 THEN {}
          ELSE UNION { { <<Chunk(SubSeq(bytes, 1, i))>> \o rest :
                           rest \in Chunkings(SubSeq(bytes, i + 1, Len(bytes)), cuts - 1) } :
                       i \in 1..(Len(bytes) - 1) })

\* general: any lines, possibly with an un-terminated last line;
\* wellformed: k text-fragment lines, one metadata line, the sentinel;
\* junk: one text-fragment line, lines to be discarded, one text-fragment line;
\* nofrag: lines that carry no text fragment, then the sentinel;
\* shared: metadata and text-fragment lines in any order, then the sentinel;
\* utf8: text-fragment lines, with and without a multi-byte character;
\* timed: any lines, for a byte source that is not always ready
FamilyLines(f) ==
    CASE f = "general" -> SeqsOf(GeneralKinds, 0, MaxLines)
      [] f = "wellformed" ->
            {fr \o <<m, "F">> : fr \in SeqsOf(FragKinds, 1, MaxFrags), m \in MetaAtoms}
      [] f = "junk" ->
            {<<f1>> \o js \o <<f2>> : f1 \in {"a", "b"}, f2 \in {"a", "b"},
                                       js \in SeqsOf(JunkKinds, 1, MaxJunk)}
      [] f = "nofrag" -> {ls \o <<"F">> : ls \in SeqsOf(OtherKinds, 0, MaxLines)}
      [] f = "utf8" -> SeqsOf(Utf8Kinds, 1, MaxLines)
      [] f = "shared" -> {ls \o <<"F">> : ls \in SeqsOf(SharedKinds, 1, MaxLines)}
      [] f = "timed" -> SeqsOf(TimedKinds, 0, MaxTimedLines)

DecoderInit ==
    /\ max_retries = 0
    /\ session = None
    /\ last_id = None
    /\ op = "chat_stream"
    /\ pc = "done"
    /\ attempt = 1
    /\ result = [ok |-> TRUE, err |-> NoErr, sid |-> None, content |-> <<>>, latency |-> 0]
    /\ full_response = <<>>
    /\ requests = <<None>>
    /\ sleeps = 0
    /\ outcomes = <<result>>
    /\ pre = None
    /\ returns = 1
    /\ item = NoItem
    /\ stream_erred = FALSE
    /\ cls_error = NoErr
    /\ cls_done = FALSE
    /\ cls_retryable = FALSE
    /\ d_family \in {"general", "wellformed", "junk", "nofrag", "utf8"}
    /\ d_lines \in FamilyLines(d_family)
    /\ d_open \in (IF d_family = "general" /\ d_lines # <<>> THEN BOOLEAN ELSE {FALSE})
    /\ stream \in {new_stream(cs) : cs \in Chunkings(BodyBytes(d_lines, d_open), MaxCuts)}
    /\ last_resp = StreamResp(stream.src)
    /\ d_items = <<>>
    /\ d_ended = FALSE
    /\ uuids = 1
    /\ correlation_id = 1
    /\ headers = <<1>>
    /\ heads = 0
    /\ elapsed = 0

\* the caller of chat_stream polls the stream it was given, again and again
DecoderSpec == DecoderInit /\ [][Poll]_vars

(* ----------- the decoder with a second holder of the id cell ----------- *)
\* ChippStream::new is handed the Arc<Mutex<Option<String>>> by its caller;
\* here the caller has kept a clone and locks and unlocks the cell at any
\* time, as a reader like session_id() does.
LockInit ==
    /\ max_retries = 0
    /\ session = None
    /\ last_id = None
    /\ op = "chat_stream"
    /\ pc = "done"
    /\ attempt = 1
    /\ result = [ok |-> TRUE, err |-> NoErr, sid |-> None, content |-> <<>>, latency |-> 0]
    /\ full_response = <<>>
    /\ requests = <<None>>
    /\ sleeps = 0
    /\ outcomes = <<result>>
    /\ pre = None
    /\ returns = 1
    /\ item = NoItem
    /\ stream_erred = FALSE
    /\ cls_error = NoErr
    /\ cls_done = FALSE
    /\ cls_retryable = FALSE
    /\ d_family = "shared"
    /\ d_lines \in FamilyLines(d_family)
    /\ d_open = FALSE
    /\ stream \in {[new_stream(cs) EXCEPT !.locked = l] :
                      cs \in Chunkings(BodyBytes(d_lines, d_open), MaxCuts), l \in BOOLEAN}
    /\ last_resp = StreamResp(stream.src)
    /\ d_items = <<>>
    /\ d_ended = FALSE
    /\ uuids = 1
    /\ correlation_id = 1
    /\ headers = <<1>>
    /\ heads = 0
    /\ elapsed = 0

\* the other holder acquires the cell (Mutex::lock)
Lock ==
    /\ stream.live
    /\ ~stream.locked
    /\ stream' = [stream EXCEPT !.locked = TRUE]
    /\ UNCHANGED <<max_retries, session, op, pc, attempt, result, full_response, requests,
                   sleeps, outcomes, pre, last_id, returns, item, stream_erred, clsvars,
                   last_resp, inputvars, d_items, d_ended, corrvars, pingvars>>

\* the other holder drops its guard
Unlock ==
    /\ stream.live
    /\ stream.locked
    /\ stream' = [stream EXCEPT !.locked = FALSE]
    /\ UNCHANGED <<max_retries, session, op, pc, attempt, result, full_response, requests,
                   sleeps, outcomes, pre, last_id, returns, item, stream_erred, clsvars,
                   last_resp, inputvars, d_items, d_ended, corrvars, pingvars>>

LockSpec == LockInit /\ [][Poll \/ Lock \/ Unlock]_vars

(* --------- the decoder over a byte source that is not always ready ----- *)
\* the ways bytes_stream() can deliver whole lines: every chunk holds one or
\* more lines
RECURSIVE LineChunkings(_)
LineChunkings(lines) ==
    IF lines = <<>> THEN {<<>>}
    ELSE UNION { { <<Chunk(BodyBytes(SubSeq(lines, 1, k), FALSE))>> \o rest :
                     rest \in LineChunkings(SubSeq(lines, k + 1, Len(lines))) } :
                 k \in 1..Len(lines) }

\* the ways the polls of bytes_stream() can go: the chunks in order, with at
\* most n polls that find nothing ready, anywhere up to the source's close
RECURSIVE Timings(_, _)
Timings(cs, n) ==
    (IF cs = <<>> THEN {<<>>}
     ELSE {<<Head(cs)>> \o rest : rest \in Timings(Tail(cs), n)})
    \cup (IF n = 0 THEN {}
          ELSE {<<NotReady>> \o rest : rest \in Timings(cs, n - 1)})

TimingInit ==
    /\ max_retries = 0
    /\ session = None
    /\ last_id = None
    /\ op = "chat_stream"
    /\ pc = "done"
    /\ attempt = 1
    /\ result = [ok |-> TRUE, err |-> NoErr, sid |-> None, content |-> <<>>, latency |-> 0]
    /\ full_response = <<>>
    /\ requests = <<None>>
    /\ sleeps = 0
    /\ outcomes = <<result>>
    /\ pre = None
    /\ returns = 1
    /\ item = NoItem
    /\ stream_erred = FALSE
    /\ cls_error = NoErr
    /\ cls_done = FALSE
    /\ cls_retryable = FALSE
    /\ d_family = "timed"
    /\ d_lines \in FamilyLines(d_family)
    /\ d_open = FALSE
    /\ stream \in {new_stream(ts) :
                      ts \in UNION {Timings(cs, MaxPending) : cs \in LineChunkings(d_lines)}}
    /\ last_resp = StreamResp(stream.src)
    /\ d_items = <<>>
    /\ d_ended = FALSE
    /\ uuids = 1
    /\ correlation_id = 1
    /\ headers = <<1>>
    /\ heads = 0
    /\ elapsed = 0

\* the caller of chat_stream keeps polling: the task is woken whenever the
\* byte source has something, and `while let Some(..) = stream.next().await`
\* polls again after every item
TimingSpec == TimingInit /\ [][Poll]_vars /\ WF_vars(Poll)

(* ------------------------------- claims -------------------------------- *)
Last(q) == q[Len(q)]
InChat == op \in ChatOps
Retryable(r) == ~r.ok /\ is_retryable_error(r.err)
Fatal(r) == ~r.ok /\ ~is_retryable_error(r.err)
AllRetryable(q) == \A i \in 1..Len(q) : Retryable(q[i])

\* C1: whenever an attempt of chat/chat_detailed fails with a fatal failure,
\* the call returns that same failure, whatever the attempt number and
\* whatever max_retries is (0 included).
C1_FatalReturnsOriginal ==
    (InChat /\ outcomes # <<>> /\ Fatal(Last(outcomes)))
        => (pc = "done" /\ result = Last(outcomes))

\* C2: when every attempt of a chat/chat_detailed call fails with a retryable
\* failure, the call goes on until it has made max_retries + 1 attempts and
\* then returns MaxRetriesExceeded(max_retries).
C2_ExhaustedAfterBudget ==
    (InChat /\ outcomes # <<>> /\ AllRetryable(outcomes)) =>
        IF Len(outcomes) = max_retries + 1
        THEN /\ pc = "done"
             /\ result = Err(MaxRetriesExceeded(max_retries))
             /\ Len(requests) = max_retries + 1
             /\ attempt = max_retries + 1
        ELSE /\ pc \in {"sleep", "attempt"}
             /\ Len(outcomes) < max_retries + 1
             /\ returns = 0

C2_Witness ==
    /\ InChat /\ pc = "done" /\ max_retries = 2
    /\ Len(outcomes) = 3 /\ AllRetryable(outcomes)
    /\ result.err.tag = "MaxRetriesExceeded"

\* C3: a call whose N-th attempt succeeds after N-1 retryable failures
\* (1 <= N <= max_retries + 1) returns that attempt's payload after exactly N
\* requests and N-1 backoff sleeps, and the session holds the payload's id.
C3_SuccessAfterRetries ==
    (InChat /\ outcomes # <<>> /\ Last(outcomes).ok) =>
        LET N == Len(outcomes)
        IN  /\ N <= max_retries + 1
            /\ AllRetryable(SubSeq(outcomes, 1, N - 1))
            /\ pc = "done"
            /\ returns = 1
            /\ result.ok
            /\ result.content = Last(outcomes).content
            /\ (op = "chat_detailed" => result = Last(outcomes))
            /\ Len(requests) = N
            /\ sleeps = N - 1
            /\ session = Last(outcomes).sid

C3_Witness ==
    /\ InChat /\ pc = "done" /\ result.ok
    /\ max_retries = 2 /\ Len(outcomes) = 3 /\ sleeps = 2
    /\ pre # session

\* C4: when the first attempt fails with a fatal failure, the call returns
\* after exactly one request and no backoff sleep.
C4_FatalFirstAttemptOneRequest ==
    (InChat /\ outcomes # <<>> /\ Fatal(outcomes[1])) =>
        (pc = "done" /\ Len(requests) = 1 /\ Len(outcomes) = 1 /\ sleeps = 0 /\ returns = 1)

C4_Witness ==
    /\ InChat /\ pc = "done" /\ max_retries >= 1
    /\ Len(outcomes) = 1 /\ outcomes[1].err = ApiError(400, "")

TerminalResult ==
    \/ result.ok /\ Last(outcomes).ok
    \/ result = Err(MaxRetriesExceeded(max_retries))
    \/ Fatal(result) /\ result = Last(outcomes)

\* C5: provided every attempt completes, every chat/chat_detailed call
\* eventually returns, and it returns exactly once: a success payload, a
\* fatal error, or MaxRetriesExceeded.
C5_ReturnsExactlyOnce ==
    /\ [](InChat => (returns <= 1 /\ (pc = "done" <=> returns = 1)))
    /\ [](InChat /\ pc = "done" => TerminalResult)
    /\ ((InChat /\ pc \in {"attempt", "sleep"}) ~> (InChat /\ pc = "done" /\ returns = 1))

C5_Witness ==
    /\ InChat /\ pc = "done" /\ returns = 1
    /\ Len(outcomes) = 2 /\ Fatal(result)

\* C6: a call of chat, chat_detailed, chat_stream or chat_stream_collect
\* that returns an error leaves the session's id as it was before the call,
\* also after failed attempts and after the stream has captured a metadata id.
C6_ErrorLeavesSession ==
    /\ (op \in ChatOps \cup StreamOps /\ pc = "done" /\ ~result.ok) => session = pre
    /\ (pc \in {"attempt", "sleep", "open", "collect"}) => session = pre

C6_Witness ==
    /\ op = "chat_stream_collect" /\ pc = "done" /\ ~result.ok
    /\ stream.cell # None /\ stream.cell # pre
    /\ result.err.tag = "HttpError"

\* C7: after a successful chat/chat_detailed call the session's id is the
\* chatSessionId of the successful response, whatever it held before.
C7_SuccessReplacesSession ==
    (InChat /\ pc = "done" /\ result.ok) =>
        /\ session = Last(outcomes).sid
        /\ session \in Ids
        /\ (op = "chat_detailed" => result.sid = session)

C7_Witness ==
    /\ InChat /\ pc = "done" /\ result.ok
    /\ pre \in Ids /\ session \in Ids /\ pre # session

\* C8: every request carries the session's current id, which is the id of
\* the latest successful exchange since the last reset (none when there is
\* none), and all attempts of one call carry the same id.
C8_RequestsCarryLatestId ==
    /\ \A i \in 1..Len(requests) : requests[i] = pre
    /\ (pc \in {"attempt", "open"}) => session = last_id

\* C9: is_retryable_error is true for an ApiError exactly when its status is
\* >= 500 or 429, and false for InvalidResponse, StreamError, ConfigError and
\* MaxRetriesExceeded.
C9_Classifier ==
    (cls_done /\ cls_error.tag # "HttpError") =>
        (cls_retryable <=>
            (cls_error.tag = "ApiError" /\ (cls_error.status >= 500 \/ cls_error.status = 429)))

C9_Witness == cls_done /\ cls_error = ApiError(500, "") /\ cls_retryable

\* C10 as stated: a retryable failure while opening the stream is
\* re-attempted up to the attempt budget.
C10_OpenIsRetried ==
    (op = "chat_stream" /\ pc = "done" /\ Retryable(Last(outcomes)))
        => Len(requests) = max_retries + 1

\* C10 amended: chat_stream sends exactly one request and never sleeps; a
\* failure while opening the stream, retryable or not, is returned as it is,
\* and consuming the stream sends no request.
C10_OpenIsNotRetried ==
    (op \in StreamOps) =>
        /\ Len(requests) <= 1
        /\ sleeps = 0
        /\ (pc \in {"collect", "done"} => Len(requests) = 1)
        /\ (pc = "done" /\ ~result.ok => result.err.tag \in {"HttpError", "ApiError", "StreamError"})
        /\ (pc = "done" /\ ~result.ok /\ ~stream_erred => result.err.tag \in {"HttpError", "ApiError"})

C10_Witness ==
    /\ op = "chat_stream" /\ pc = "done" /\ max_retries >= 1
    /\ result = Err(ApiError(500, ""))
    /\ Len(requests) = 1

\* C11: when the streaming request is answered with a non-2xx status,
\* chat_stream returns an ApiError carrying that status and the response's
\* body text, and hands out no stream.
C11_OpenFailureCarriesStatusAndBody ==
    (op = "chat_stream" /\ pc = "done" /\ last_resp.transport = ""
        /\ ~is_success(last_resp.status))
        => /\ result = Err(ApiError(last_resp.status, last_resp.text))
           /\ stream = NoStream

C11_Witness ==
    /\ op = "chat_stream" /\ pc = "done"
    /\ last_resp = ErrorResp(500, "Internal Server Error")
    /\ result = Err(ApiError(500, "Internal Server Error"))
    /\ ~stream.live

(* ------------------------- claims on the decoder ------------------------ *)
\* the texts of the text-fragment lines among lines, in order
RECURSIVE FragTexts(_)
FragTexts(lines) ==
    IF lines = <<>> THEN <<>>
    ELSE (IF Head(lines) \in FragKinds THEN <<delta_of(Head(lines))>> ELSE <<>>)
         \o FragTexts(Tail(lines))

\* the texts of the fragments among the delivered items, in order
RECURSIVE ItemTexts(_)
ItemTexts(items) ==
    IF items = <<>> THEN <<>>
    ELSE (IF Head(items).k = "ok" THEN <<Head(items).text>> ELSE <<>>)
         \o ItemTexts(Tail(items))

\* s can be had from t by deleting elements
RECURSIVE IsSubseq(_, _)
IsSubseq(s, t) ==
    IF s = <<>> THEN TRUE
    ELSE IF t = <<>> THEN FALSE
    ELSE IF Head(s) = Head(t) THEN IsSubseq(Tail(s), Tail(t))
    ELSE IsSubseq(s, Tail(t))

Has(lines, k) == \E i \in 1..Len(lines) : lines[i] = k
ErrorDelivered(tag) == \E i \in 1..Len(d_items) : d_items[i].err.tag = tag

\* C12: once the decoder has processed the line `data: [DONE]` it delivers
\* no further item, whatever follows in the same chunk or in later chunks.
C12_NothingAfterSentinel ==
    [][stream'.sentinel => d_items' = d_items]_vars

\* C13: when the source is exhausted while the buffer holds an un-terminated
\* last line, that line is parsed before the end is reported: its fragment
\* is delivered, or its metadata id is captured.
C13_TrailingLineIsParsed ==
    (d_family = "general" /\ d_ended /\ d_open
        /\ ~Has(d_lines, "F") /\ ~Has(d_lines, "x"))
        => /\ Last(d_lines) \in FragKinds => ItemTexts(d_items) = FragTexts(d_lines)
           /\ Last(d_lines) \in MetaAtoms => stream.cell = persisted_message_id(Last(d_lines))

\* C14: after a chunk that is not UTF-8 has been answered with a
\* StreamError, every later poll returns end-of-stream, reads no chunk and
\* delivers nothing.
C14_Utf8FailureIsTerminal ==
    [][ErrorDelivered("StreamError")
        => (item' = NoItem /\ d_items' = d_items /\ stream'.src = stream.src)]_vars

IsPrefix(s, t) == Len(s) <= Len(t) /\ SubSeq(t, 1, Len(s)) = s
AllFragments(items) == \A i \in 1..Len(items) : items[i].k = "ok"

\* C15: for k >= 1 text-fragment lines followed by one metadata line and
\* the sentinel, under every chunking, the decoder delivers exactly those k
\* fragments in order and nothing else, then end-of-stream, and the captured
\* id is the metadata line's.
C15_WellFormedDeliversAll ==
    d_family = "wellformed" =>
        /\ AllFragments(d_items)
        /\ IsPrefix(ItemTexts(d_items), FragTexts(d_lines))
        /\ d_ended =>
              /\ ItemTexts(d_items) = FragTexts(d_lines)
              /\ Len(d_items) = Len(d_lines) - 2
              /\ Concat(ItemTexts(d_items)) = Concat(FragTexts(d_lines))
              /\ stream.cell = persisted_message_id(d_lines[Len(d_lines) - 1])

C15_Witness ==
    /\ d_family = "wellformed" /\ d_ended
    /\ d_lines = <<"a", "b", "m2", "F">>
    /\ Len(last_resp.body) = 3
    /\ ItemTexts(d_items) = << <<"a">>, <<"b">> >>
    /\ stream.cell = "s2"

\* C16: for every input and every chunking, the fragments delivered are a
\* subsequence, in arrival order, of the input's text-fragment lines.
C16_DeliveredIsSubsequence ==
    d_family = "general" => IsSubseq(ItemTexts(d_items), FragTexts(d_lines))

\* C18: once a poll has returned end-of-stream, every later poll returns
\* end-of-stream and the inner stream is not polled again.
C18_FinishedIsSticky ==
    [][d_ended => (item' = NoItem /\ d_items' = d_items /\ stream'.reads = stream.reads
                    /\ stream'.src = stream.src)]_vars

C18_Witness ==
    /\ d_family = "general" /\ d_ended /\ item = NoItem
    /\ stream.finished /\ ~stream.sentinel /\ stream.reads = 3
    /\ Len(d_items) = 2

\* C19: a complete line that is blank, lacks the data prefix, has an
\* unrecognized type or is not JSON is discarded without an item; the
\* text-fragment lines before and after it are delivered, in order.
C19_JunkIsSkipped ==
    d_family = "junk" =>
        /\ AllFragments(d_items)
        /\ IsPrefix(ItemTexts(d_items), FragTexts(d_lines))
        /\ d_ended => (Len(d_items) = 2 /\ ItemTexts(d_items) = FragTexts(d_lines))

C19_Witness ==
    /\ d_family = "junk" /\ d_ended
    /\ d_lines = <<"a", "bare", "b">>
    /\ d_items = <<OkItem(<<"a">>), OkItem(<<"b">>)>>

\* C20: a text-fragment line whose text is the empty string is delivered as
\* an item holding the empty string, at its place among the fragments.
C20_EmptyFragmentDelivered ==
    (d_family = "wellformed" /\ d_ended) =>
        \A i \in 1..(Len(d_lines) - 2) :
            d_lines[i] = "e" => (i <= Len(d_items) /\ d_items[i] = OkItem(<<>>))

C20_Witness ==
    /\ d_family = "wellformed" /\ d_ended
    /\ d_lines = <<"a", "e", "m1", "F">>
    /\ d_items = <<OkItem(<<"a">>), OkItem(<<>>)>>

\* C21: a stream whose lines carry no text fragment (metadata, other event
\* types and blank lines, then the sentinel) delivers no item at all, neither
\* fragment nor error, and its polls return end-of-stream.
C21_NoFragmentsNoItems ==
    d_family = "nofrag" => (d_items = <<>> /\ item = NoItem /\ ~stream_erred)

C21_Witness ==
    /\ d_family = "nofrag" /\ d_ended /\ d_items = <<>>
    /\ d_lines = <<"m1", "f", "F">>
    /\ stream.finished /\ stream.cell = "s1"

\* C22: after the consumer has drained a stream obtained from chat_stream in
\* which a metadata line was received, the session passed to chat_stream
\* holds that metadata's id.
C22_StreamUpdatesSession ==
    (op = "chat_stream" /\ pc = "done" /\ stream.live /\ d_ended /\ stream.cell # None)
        => session = stream.cell

\* C23: a chat_stream_collect call that meets no error returns the in-order
\* concatenation of the fragments the stream delivered; the session is not
\* written while the stream is open, and once it has ended the session holds
\* the captured id if one was captured and is unchanged otherwise.
C23_CollectConcatenatesThenWrites ==
    op = "chat_stream_collect" =>
        /\ pc \in {"open", "collect"} => session = pre
        /\ (pc = "done" /\ result.ok) =>
              /\ d_ended /\ AllFragments(d_items)
              /\ result.content = Concat(ItemTexts(d_items))
              /\ session = (IF stream.cell # None THEN stream.cell ELSE pre)

C23_Witness ==
    /\ op = "chat_stream_collect" /\ pc = "done" /\ result.ok
    /\ result.content = <<"a", "b">>
    /\ pre = "s2" /\ stream.cell = "s1" /\ session = "s1"

\* C24: within one chat / chat_detailed call every attempt carries its own
\* correlation id: the X-Correlation-ID of a request differs from that of
\* every earlier request of the call.
C24_FreshCorrelationIdPerAttempt ==
    InChat => \A i, j \in 1..Len(headers) : i # j => headers[i] # headers[j]

\* C24 amended: a chat / chat_detailed call generates one correlation id, at
\* its start, and every attempt of the call, retries included, carries that
\* same id in X-Correlation-ID.
C24_OneCorrelationIdPerCall ==
    InChat =>
        /\ uuids = 1
        /\ Len(headers) = Len(requests)
        /\ \A i \in 1..Len(headers) : headers[i] = correlation_id

C24_Witness ==
    /\ InChat /\ pc = "done" /\ sleeps = 2
    /\ headers = <<correlation_id, correlation_id, correlation_id>>

\* C25: a 2xx non-streaming response that parses and has an empty choices
\* list makes the attempt fail with InvalidResponse; the call then returns
\* an error at once, with no sleep and no further attempt.
C25_NoChoicesIsInvalidResponse ==
    (InChat /\ last_resp.transport = "" /\ is_success(last_resp.status)
        /\ last_resp.parses /\ last_resp.choices = <<>>)
        => /\ Last(outcomes) = Err(InvalidResponse("nochoices"))
           /\ pc = "done" /\ ~result.ok
           /\ sleeps = Len(requests) - 1

C25_Witness ==
    /\ InChat /\ pc = "done" /\ max_retries = 2
    /\ last_resp = HttpResp(200, TRUE, "s1", <<>>)
    /\ Len(requests) = 1
    /\ result = Err(InvalidResponse("nochoices"))

\* C27: a ping call sends exactly one HEAD request and nothing else, never
\* sleeps, returns the elapsed time whenever a response of any status was
\* received and HttpError on a transport failure, and leaves the session as
\* it was.
C27_PingOnceNoRetry ==
    op = "ping" =>
        /\ heads <= 1 /\ requests = <<>> /\ sleeps = 0 /\ session = pre
        /\ pc = "done" =>
              /\ heads = 1 /\ returns = 1
              /\ last_resp.transport = "" => (result.ok /\ result.latency = elapsed)
              /\ last_resp.transport # "" => result = Err(HttpError(last_resp.transport))

C27_Witness ==
    /\ op = "ping" /\ pc = "done" /\ max_retries = 2 /\ session = "s1"
    /\ last_resp = HttpResp(500, FALSE, None, <<>>)
    /\ result.ok /\ result.latency = 2 /\ heads = 1

\* C28: after the decoder has processed the line `data: [DONE]` the inner
\* byte stream is never polled again, not even by the poll that processed
\* the line.
C28_NoReadAfterSentinel ==
    stream.late_reads = 0

\* C29: in every state of a chat / chat_detailed call at most
\* max_retries + 1 requests have been issued and at most max_retries sleeps
\* started, and every sleep is followed by a further attempt within the
\* budget: none follows the last attempt.
C29_AttemptBudget ==
    InChat =>
        /\ Len(requests) <= max_retries + 1
        /\ sleeps <= max_retries
        /\ pc = "sleep" => (sleeps = Len(requests) /\ Len(requests) <= max_retries)
        /\ pc \in {"attempt", "done"} => sleeps = Len(requests) - (IF pc = "done" THEN 1 ELSE 0)

C29_Witness ==
    /\ InChat /\ pc = "done" /\ max_retries = 2
    /\ Len(requests) = 3 /\ sleeps = 2
    /\ Fatal(outcomes[3]) /\ Retryable(outcomes[1])

\* C30: the write of the id never blocks decoding. A metadata line processed
\* while the cell is locked by another holder leaves the cell as it was, a
\* metadata line processed while the cell is free leaves its id in the cell,
\* and in both cases every fragment of the input is delivered, in order.
C30_CellWriteNeverBlocks ==
    /\ [](d_family = "shared" =>
            /\ AllFragments(d_items)
            /\ IsPrefix(ItemTexts(d_items), FragTexts(d_lines))
            /\ d_ended => ItemTexts(d_items) = FragTexts(d_lines))
    /\ [][stream'.metas # stream.metas =>
            stream'.cell = (IF stream.locked THEN stream.cell ELSE stream'.last_meta)]_vars

C30_Witness ==
    /\ d_family = "shared" /\ d_ended
    /\ d_lines = <<"m1", "a", "F">>
    /\ stream.metas = 1 /\ stream.last_meta = "s1" /\ stream.cell = None
    /\ d_items = <<OkItem(<<"a">>)>>

\* C31 as stated: a read of ChippStream::session_id() made while the stream
\* is still unfinished returns no id, and the session is not written before
\* the stream has ended.
C31_NoIdBeforeEnd ==
    /\ (op = "chat_stream" /\ pc = "done" /\ stream.live /\ ~stream.finished)
            => session_id(stream) = None
    /\ (op \in StreamOps /\ ~d_ended) => session = pre

\* C31 amended: the session is not written before the stream has ended,
\* but a read of session_id() returns the id of the latest metadata line
\* processed so far, also while the stream is still unfinished, and no id
\* only as long as no metadata line has been processed.
C31_IdVisibleOnceCaptured ==
    /\ (op \in StreamOps /\ ~d_ended) => session = pre
    /\ (op = "chat_stream" /\ pc = "done") => session = pre
    /\ stream.live => session_id(stream) = stream.last_meta

C31_Witness ==
    /\ op = "chat_stream" /\ pc = "done" /\ stream.live
    /\ ~stream.finished /\ ~d_ended /\ d_items = <<OkItem(<<"a">>)>>
    /\ session_id(stream) = "s1" /\ session = None

\* C39: when the concatenation of all chunks is valid UTF-8 the decoder
\* never yields a StreamError, wherever the chunk boundaries fall, inside a
\* multi-byte character included.
C39_ValidTextNeverStreamError ==
    (d_family = "utf8" /\ valid_utf8(BodyBytes(d_lines, d_open)))
        => ~ErrorDelivered("StreamError")

\* the bytes are the encoding of some text
WellEncoded(bytes) ==
    \A i \in 1..Len(bytes) :
        /\ bytes[i] # "X"
        /\ bytes[i] = "U1" => (i < Len(bytes) /\ bytes[i + 1] = "U2")
        /\ bytes[i] = "U2" => (i > 1 /\ bytes[i - 1] = "U1")

\* C34: the buffer changes only by appending the text of newly read chunks
\* at its end and by removing complete lines, line break included, from its
\* front: after a poll it is the old buffer followed by the text of the
\* chunks read, minus a prefix that is empty or ends with a line break. A
\* chunk that is not UTF-8 adds nothing.
C34_BufferFrame ==
    [][LET consumed == SubSeq(stream.src, 1, Len(stream.src) - Len(stream'.src))
           whole == stream.buffer \o
                    Concat([i \in 1..Len(consumed) |->
                              IF consumed[i].ok /\ WellEncoded(consumed[i].bytes)
                              THEN consumed[i].bytes ELSE <<>>])
       IN  \E n \in 0..Len(whole) :
              /\ stream'.buffer = SubSeq(whole, n + 1, Len(whole))
              /\ n = 0 \/ whole[n] = "NL"]_vars

C34_Witness ==
    /\ d_family = "general" /\ item = ErrItem(StreamError)
    /\ stream.buffer = <<"D", "a">> /\ stream.reads = 2
    /\ d_items = <<ErrItem(StreamError)>>

\* C35: an error raised by the byte source while the stream is consumed is
\* handed to the consumer, by the poll that met it, as an HttpError item,
\* and that poll sends no request, starts no sleep and opens no new attempt.
C35_SourceErrorSurfaced ==
    [][stream'.src_errs > stream.src_errs =>
          /\ item' = ErrItem(HttpError("body"))
          /\ d_items' = Append(d_items, item')
          /\ requests' = requests /\ sleeps' = sleeps /\ attempt' = attempt
          /\ pc' \in {"idle", "done"}
          /\ (op = "chat_stream_collect" /\ pc = "collect") => result' = Err(HttpError("body"))]_vars

C35_Witness ==
    /\ op = "chat_stream_collect" /\ pc = "done"
    /\ stream.src_errs = 1 /\ item = ErrItem(HttpError("body"))
    /\ result = Err(HttpError("body"))
    /\ Len(requests) = 1 /\ sleeps = 0 /\ max_retries = 2

\* the id of the last metadata line among lines that comes before the first
\* sentinel line, None when there is none
RECURSIVE IdBeforeSentinel(_, _)
IdBeforeSentinel(lines, id) ==
    IF lines = <<>> \/ Head(lines) = "F" THEN id
    ELSE IdBeforeSentinel(Tail(lines),
                          IF Head(lines) \in MetaAtoms THEN persisted_message_id(Head(lines)) ELSE id)

\* C37: the id the stream holds after it has ended is that of the last
\* metadata line before the sentinel, and none when there is no such line;
\* a metadata line that comes after the sentinel is not captured.
C37_IdIsLastBeforeSentinel ==
    (d_family = "general" /\ d_ended /\ ~d_open /\ ~Has(d_lines, "x"))
        => stream.cell = IdBeforeSentinel(d_lines, None)

\* C36: when the caller cancels a chat / chat_detailed call that is
\* suspended in a backoff sleep, the call sends no further attempt: the
\* requests issued stay those sent when the sleep began (one per sleep
\* started), the session stays as it was, and nothing is returned.
C36_CancelledSleepSendsNothing ==
    /\ [](pc = "cancelled" =>
            /\ InChat /\ Len(requests) = sleeps /\ AllRetryable(outcomes)
            /\ session = pre /\ returns = 0 /\ result = NoResult)
    /\ [][pc = "cancelled" =>
            \/ pc' = "cancelled" /\ requests' = requests /\ session' = session
            \/ requests' = <<>>]_vars

C36_Witness ==
    /\ pc = "cancelled" /\ op = "chat_detailed" /\ max_retries = 2
    /\ Len(requests) = 2 /\ sleeps = 2 /\ session = "s1"
    /\ stream.live /\ d_ended

\* the complete lines a buffer holds, in order, without their line breaks
RECURSIVE CompleteLines(_)
CompleteLines(buf) ==
    IF \A i \in 1..Len(buf) : buf[i] # "NL" THEN <<>>
    ELSE LET n == CHOOSE i \in 1..Len(buf) :
                      buf[i] = "NL" /\ \A j \in 1..(i - 1) : buf[j] # "NL"
         IN  <<SubSeq(buf, 1, n - 1)>> \o CompleteLines(SubSeq(buf, n + 1, Len(buf)))

\* the i-th complete line of the buffer is a text-fragment line and no
\* text-fragment or sentinel line stands before it
FirstFragmentAt(buf, i) ==
    LET ls == CompleteLines(buf)
    IN  /\ i \in 1..Len(ls)
        /\ parse_sse_line(trim(ls[i])).e = "TextDelta"
        /\ \A j \in 1..(i - 1) : parse_sse_line(trim(ls[j])).e \notin {"TextDelta", "Done"}

\* C32: when no sentinel has been processed and the buffer holds a complete
\* text-fragment line with no sentinel line before it, the next poll
\* delivers the first such fragment without polling the byte source; and
\* every poll delivers at most one item.
C32_BufferedFragmentDeliveredFirst ==
    [][/\ Len(d_items') <= Len(d_items) + 1
       /\ \A i \in 1..Len(stream.buffer) :
             (~stream.sentinel /\ FirstFragmentAt(stream.buffer, i)) =>
                /\ item' = OkItem(parse_sse_line(trim(CompleteLines(stream.buffer)[i])).text)
                /\ d_items' = Append(d_items, item')
                /\ stream'.reads = stream.reads
                /\ stream'.src = stream.src]_vars

C32_Witness ==
    /\ d_family = "general" /\ stream.reads = 1 /\ stream.buffer = <<>>
    /\ Len(d_items) = 2 /\ AllFragments(d_items) /\ ~stream.sentinel

\* what a caller gets from a stream by polling it to its end: the texts of
\* the fragments in order, and the id held afterwards
RECURSIVE Drained(_, _)
Drained(st, texts) ==
    LET r == poll_next(st)
    IN  IF r.item.k = "none" THEN [texts |-> texts, cell |-> r.st.cell]
        ELSE Drained(r.st, IF r.item.k = "ok" THEN Append(texts, r.item.text) ELSE texts)

\* the same bytes handed over in one chunk by a source that is always ready
InOneChunk(lines, open) ==
    LET bytes == BodyBytes(lines, open)
    IN  Drained(new_stream(IF bytes = <<>> THEN <<>> ELSE <<Chunk(bytes)>>), <<>>)

BodyHasPending == \E i \in 1..Len(last_resp.body) : ~last_resp.body[i].ready

\* C33: for fixed bytes of valid text followed by the source's close, every
\* chunking and every placing of not-ready polls delivers the same
\* fragments and leaves the same captured id as the delivery in one chunk
\* by a source that is always ready.
C33_OutputIndependentOfChunkingAndTiming ==
    (d_family = "timed" /\ d_ended /\ ~Has(d_lines, "x")) =>
        /\ ItemTexts(d_items) = InOneChunk(d_lines, d_open).texts
        /\ stream.cell = InOneChunk(d_lines, d_open).cell

CompleteCount == Len(d_lines) - (IF d_open THEN 1 ELSE 0)
InvalidCount == Cardinality({i \in 1..Len(d_lines) : d_lines[i] = "x"})
ErrorCount == Cardinality({i \in 1..Len(d_items) : d_items[i].k = "err"})

\* C38: when the byte source closes and the caller keeps polling, a poll
\* eventually returns end-of-stream; the fragments delivered are at most
\* the complete lines of the input, and the other items are error items,
\* at most one for each invalid byte of the input.
C38_EndsAfterFinitelyManyItems ==
    /\ <>d_ended
    /\ [](/\ Len(ItemTexts(d_items)) <= CompleteCount
          /\ ErrorCount <= InvalidCount
          /\ Len(d_items) = Len(ItemTexts(d_items)) + ErrorCount)

C38_Witness ==
    /\ d_family = "timed" /\ d_ended /\ BodyHasPending
    /\ Len(d_lines) = 2 /\ ErrorCount = 1 /\ Len(ItemTexts(d_items)) = 1

====
